---- MODULE Spec2Model ----
(***************************************************************************)
(* State-machine model of the e-commerce REST backend: the relational      *)
(* store (clients, bills, orders, order_details, products), the order      *)
(* creation workflow OrderService.create_order_with_client_and_bill behind *)
(* POST /orders, client creation, the order confirmation e-mail, the order *)
(* reads, the generic repository, and the product service with its cache.  *)
(*                                                                         *)
(* A request is handled in one step: the handler runs from the idle state  *)
(* to completion and leaves its response in `call` and the tables as they  *)
(* were when it started in `pre`; ReturnResponse hands the response back   *)
(* and the server is idle again.                                           *)
(***************************************************************************)
EXTENDS Integers, Sequences, FiniteSets, TLC

VARIABLES clients, bills, orders, order_details, products, outbox, attempts, call, pre,
          cache, last, inflight

vars == <<clients, bills, orders, order_details, products, outbox, attempts, call, pre,
          cache, last, inflight>>

tables == <<clients, bills, orders, order_details, products>>

\* What the order workflow, client creation and the e-mail never touch: the
\* product cache, the latest ProductService call, the order requests that
\* are past their client lookup.
aside == <<cache, last, inflight>>

(***************************************************************************)
(* Bounds of the model.                                                    *)
(***************************************************************************)
\* Rows the orders table may hold before POST /orders is no longer explored.
MaxOrders == 2

\* Rows the products table may hold.
MaxProducts == 2

(***************************************************************************)
(* Values.                                                                 *)
(***************************************************************************)
\* Python's None for an optional integer field (ids are positive).
None == 0 - 1

\* SQL NULL in a string column.
NULL == "<NULL>"

\* `not v` for an Optional[int]: None and 0 are both falsy.
Falsy(v) == v = None \/ v = 0

Max(S) == CHOOSE m \in S : \A x \in S : x <= m

\* The identity column: the next id_key of a table.
NextId(rows) == Max({r.id_key : r \in rows} \cup {0}) + 1

Ids(rows) == {r.id_key : r \in rows}

\* The current contents of the store.
DB == [clients |-> clients, bills |-> bills, orders |-> orders,
       order_details |-> order_details, products |-> products]

Idle == [op |-> "idle"]

(***************************************************************************)
(* utils/security.py                                                       *)
(***************************************************************************)
\* get_password_hash: a salted one-way digest, never the plain text or NULL.
get_password_hash(password) == "$2b$" \o password

(***************************************************************************)
(* schemas/order_schema.py                                                 *)
(***************************************************************************)
\* A delivery_method value of type Optional[Union[int, str]].
DInt(i) == [t |-> "int", i |-> i, s |-> ""]

DStr(s) == [t |-> "str", i |-> 0, s |-> s]

DNone == [t |-> "none", i |-> 0, s |-> ""]

\* An accepting validator: what validate_delivery_method would be without its checks.
validate_delivery_method_lenient(v) == TRUE

\* OrderSchema.validate_delivery_method: TRUE when the value passes, FALSE
\* when the validator raises ValueError.
validate_delivery_method(v) ==
    LET valid_ints == {1, 2, 3}
        valid_strings == {"drive_thru", "on_hand", "home_delivery"}
    IN  /\ ~(v.t = "int" /\ v.i \notin valid_ints)
        /\ ~(v.t = "str" /\ v.s \notin valid_strings)

\* An item schema without the price constraint.
ValidOrderItem_no_price(item) == item.quantity > 0

\* OrderItemSchema: quantity gt=0, price gt=0.
ValidOrderItem(item) == item.quantity > 0 /\ item.price > 0

\* OrderSchema: the field constraints and the delivery_method validator.
ValidOrder(o) ==
    /\ Len(o.client_name) >= 1
    /\ o.shipping_address # ""
    /\ validate_delivery_method(o.delivery_method)
    /\ Len(o.items) >= 1
    /\ \A i \in 1..Len(o.items) : ValidOrderItem(o.items[i])
    /\ o.subtotal >= 0
    /\ o.tax >= 0
    /\ o.shipping_cost >= 0
    /\ o.total >= 0

(***************************************************************************)
(* models/enums.py and the delivery_method column                          *)
(***************************************************************************)
\* DeliveryMethod: member name by value.
DeliveryMethod(value) ==
    CASE value = "drive_thru" -> "DRIVE_THRU"
      [] value = "on_hand" -> "ON_HAND"
      [] value = "home_delivery" -> "HOME_DELIVERY"

\* The integer codes of the delivery methods: 1=drive_thru, 2=on_hand, 3=home_delivery.
DeliveryCode(i) ==
    CASE i = 1 -> "drive_thru"
      [] i = 2 -> "on_hand"
      [] i = 3 -> "home_delivery"

\* What the orders.delivery_method column holds for a value handed to
\* OrderModel: the canonical enum member, HOME_DELIVERY for anything else.
DeliveryColumn(v) ==
    IF v.t = "int" /\ v.i \in {1, 2, 3} THEN DeliveryMethod(DeliveryCode(v.i))
    ELSE IF v.t = "str" /\ v.s \in {"drive_thru", "on_hand", "home_delivery"}
         THEN DeliveryMethod(v.s)
    ELSE "HOME_DELIVERY"

\* A default that picks the first code instead of the third.
DeliveryOrDefault_first(v) ==
    IF v.t = "none" \/ (v.t = "int" /\ v.i = 0) \/ (v.t = "str" /\ v.s = "")
    THEN DInt(1) ELSE v

\* `order_data.delivery_method or 3`.
DeliveryOrDefault(v) ==
    IF v.t = "none" \/ (v.t = "int" /\ v.i = 0) \/ (v.t = "str" /\ v.s = "")
    THEN DInt(3) ELSE v

(***************************************************************************)
(* The store's constraints (models/client.py; bills, orders and            *)
(* order_details as the data model states them).                           *)
(***************************************************************************)
\* clients: email is unique and NOT NULL, hashed_password is NOT NULL.
ClientInsertable(rows, row) ==
    /\ row.email # NULL
    /\ row.hashed_password # NULL
    /\ \A c \in rows : c.email # row.email

\* bills: bill_number is unique.
BillInsertable(rows, row) == \A b \in rows : b.bill_number # row.bill_number

\* orders: client_id and bill_id are foreign keys.
OrderInsertable(db, row) ==
    /\ row.client_id \in Ids(db.clients)
    /\ row.bill_id \in Ids(db.bills)

\* order_details: order_id and product_id are foreign keys.
OrderDetailInsertable(db, row) ==
    /\ row.order_id \in Ids(db.orders)
    /\ row.product_id \in Ids(db.products)

(***************************************************************************)
(* The SQLAlchemy session of one request: `db` is the store as the open    *)
(* transaction sees it (flushed rows included), `added` the objects added  *)
(* and not yet flushed, `exc` the exception raised so far ("" for none).   *)
(***************************************************************************)
Begin(db) ==
    [db |-> db, added |-> <<>>, exc |-> "", client_id |-> None,
     bill_id |-> None, order_id |-> None]

Raise(s, exc) == [s EXCEPT !.exc = exc]

NoFault == [at |-> "none", k |-> 0]

\* flush() of a new row into table t; `ok` is the table's constraint check
\* and `broken` an injected failure of the statement.
Flush(s, t, row, ok, broken) ==
    IF broken THEN Raise(s, "OperationalError")
    ELSE IF ~ok THEN Raise(s, "IntegrityError")
    ELSE [s EXCEPT !.db[t] = @ \cup {row}]

(***************************************************************************)
(* services/order_service.py                                               *)
(***************************************************************************)
IsSpace(c) == c \in {" ", "\t"}

\* str.strip(): leading and trailing whitespace removed.
RECURSIVE LStrip(_)
LStrip(str) ==
    IF str # <<>> /\ IsSpace(Head(str)) THEN LStrip(Tail(str)) ELSE str

RECURSIVE RStrip(_)
RStrip(str) ==
    IF str # <<>> /\ IsSpace(str[Len(str)])
    THEN RStrip(SubSeq(str, 1, Len(str) - 1)) ELSE str

Strip(str) == RStrip(LStrip(str))

\* str.split(' ', 1): cut at the first space character, at most two parts.
Split1(str) ==
    LET at == {i \in 1..Len(str) : str[i] = " "}
    IN  IF at = {} THEN <<str>>
        ELSE LET i == CHOOSE j \in at : \A k \in at : j <= k
             IN  <<SubSeq(str, 1, i - 1), SubSeq(str, i + 1, Len(str))>>

\* The guest client built from the order: no password is given.
NewClient(order_data, id_key) ==
    LET name_parts == Split1(Strip(order_data.client_name))
        first_name == name_parts[1]
        last_name == IF Len(name_parts) > 1 THEN name_parts[2] ELSE first_name
    IN  [id_key |-> id_key, name |-> first_name, lastname |-> last_name,
         email |-> order_data.client_email, telephone |-> order_data.client_phone,
         hashed_password |-> NULL, role |-> "USER"]

\* A client lookup that takes any client, not the one with the order's email.
ResolveClient_any_client(s, order_data, fault) ==
    IF ~Falsy(order_data.client_id)
    THEN [s EXCEPT !.client_id = order_data.client_id]
    ELSE IF s.db.clients # {}
    THEN [s EXCEPT !.client_id = Max(Ids(s.db.clients))]
    ELSE Raise(s, "IntegrityError")

\* PASO 1: use the given client_id, or the client with the order's email,
\* or insert a new client.
ResolveClient(s, order_data, fault) ==
    IF ~Falsy(order_data.client_id)
    THEN [s EXCEPT !.client_id = order_data.client_id]
    ELSE LET existing == {c \in s.db.clients : c.email = order_data.client_email}
         IN  IF existing # {}
             THEN [s EXCEPT !.client_id = (CHOOSE c \in existing : TRUE).id_key]
             ELSE LET new_client == NewClient(order_data, NextId(s.db.clients))
                      t == Flush(s, "clients", new_client,
                                 ClientInsertable(s.db.clients, new_client),
                                 fault.at = "client_insert")
                  IN  IF t.exc # "" THEN t
                      ELSE [t EXCEPT !.client_id = new_client.id_key]

\* The bill number generated from the clock, to the second.
BillNumber(now) == <<"BILL", now>>

\* A bill step that inserts a new bill whether or not a bill_id is given.
ResolveBill_always_new(s, order_data, now, fault) ==
    LET new_bill == [id_key |-> NextId(s.db.bills),
                     bill_number |-> <<"BILL", now>>, discount |-> 0,
                     date |-> now, total |-> order_data.total,
                     payment_type |-> order_data.payment_method]
        t == Flush(s, "bills", new_bill, TRUE, FALSE)
    IN  [t EXCEPT !.bill_id = new_bill.id_key]

\* PASO 2: use the given bill_id or insert a new bill.
ResolveBill(s, order_data, now, fault) ==
    IF ~Falsy(order_data.bill_id)
    THEN [s EXCEPT !.bill_id = order_data.bill_id]
    ELSE LET new_bill == [id_key |-> NextId(s.db.bills),
                          bill_number |-> BillNumber(now), discount |-> 0,
                          date |-> now, total |-> order_data.total,
                          payment_type |-> order_data.payment_method]
             t == Flush(s, "bills", new_bill,
                        BillInsertable(s.db.bills, new_bill),
                        fault.at = "bill_insert")
         IN  IF t.exc # "" THEN t
             ELSE [t EXCEPT !.bill_id = new_bill.id_key]

\* PASO 3: insert the order.
InsertOrder(s, order_data, now, fault) ==
    LET new_order == [id_key |-> NextId(s.db.orders), date |-> now,
                      total |-> order_data.total,
                      delivery_method |->
                          DeliveryColumn(DeliveryOrDefault(order_data.delivery_method)),
                      status |-> "PENDING",
                      client_id |-> s.client_id, bill_id |-> s.bill_id]
        t == Flush(s, "orders", new_order, OrderInsertable(s.db, new_order),
                   fault.at = "order_insert")
    IN  IF t.exc # "" THEN t
        ELSE [t EXCEPT !.order_id = new_order.id_key]

\* One order detail per item, all attached to the new order.
OrderDetailOf(item, order_id) ==
    [quantity |-> item.quantity, price |-> item.price,
     order_id |-> order_id, product_id |-> item.product_id]

\* A loop that stops one item short.
AddOrderDetails_drop_last(s, order_data) ==
    [s EXCEPT !.added =
        [i \in 1..(Len(order_data.items) - 1) |->
            OrderDetailOf(order_data.items[i], s.order_id)]]

\* PASO 4: add one order detail per item to the session (no flush yet).
AddOrderDetails(s, order_data) ==
    [s EXCEPT !.added =
        [i \in 1..Len(order_data.items) |-> OrderDetailOf(order_data.items[i], s.order_id)]]

\* The flush that commit() starts with: the added details are inserted in
\* the order they were added, each taking the next id_key.
RECURSIVE FlushAdded(_, _, _)
FlushAdded(s, i, fault) ==
    IF s.exc # "" \/ i > Len(s.added) THEN s
    ELSE LET row == [id_key |-> NextId(s.db.order_details)] @@ s.added[i]
         IN  FlushAdded(Flush(s, "order_details", row,
                              OrderDetailInsertable(s.db, row),
                              fault.at = "detail_insert" /\ fault.k = i),
                        i + 1, fault)

\* commit(): flush what was added, then make the transaction durable.
Commit(s, fault) ==
    LET t == FlushAdded(s, 1, fault)
    IN  IF t.exc # "" THEN t
        ELSE IF fault.at = "commit" THEN Raise(t, "OperationalError")
        ELSE [t EXCEPT !.added = <<>>]

\* A rollback that keeps what the transaction had flushed.
Rollback_keeps_flushed(db, s) == s.db

\* rollback(): the store is what it was before the transaction.
Rollback(db, s) == db

\* create_order_with_client_and_bill: the steps in sequence, the first
\* exception skipping the rest; commit on success, rollback and re-raise on
\* an exception.  The result is the store after the call, the exception
\* raised ("" for none) and the id of the order returned.
create_order_with_client_and_bill(db, order_data, now, fault) ==
    LET Then(S, Step(_)) == {IF s.exc # "" THEN s ELSE Step(s) : s \in S}
        Paso1(s) == ResolveClient(s, order_data, fault)
        Paso2(s) == ResolveBill(s, order_data, now, fault)
        Paso3(s) == InsertOrder(s, order_data, now, fault)
        Paso4(s) == AddOrderDetails(s, order_data)
        DoCommit(s) == Commit(s, fault)
        end == Then(Then(Then(Then(Then({Begin(db)}, Paso1), Paso2), Paso3), Paso4),
                    DoCommit)
    IN  CHOOSE r \in {IF s.exc = ""
                      THEN [db |-> s.db, exc |-> "", order_id |-> s.order_id]
                      ELSE [db |-> Rollback(db, s), exc |-> s.exc, order_id |-> None] :
                      s \in end} : TRUE

(***************************************************************************)
(* controllers/order_controller.py and main.py: POST /orders               *)
(***************************************************************************)
\* The status create_order answers with when the service raises: every
\* exception becomes the same HTTPException.
HTTP_400_BAD_REQUEST == 400

HTTP_201_CREATED == 201

\* validation_exception_handler: a body that fails OrderSchema never reaches
\* the endpoint.
HTTP_422_UNPROCESSABLE_ENTITY == 422

\* The clock readings a request may see: the second of the latest bill or a
\* later one.
Clock ==
    LET latest == Max({b.date : b \in bills} \cup {1})
    IN  {latest, latest + 1}

\* POST /orders with body order_data, at clock reading now; fault is the
\* statement of the transaction that the database fails, if any.
create_order(order_data, now, fault) ==
    /\ call = Idle
    /\ Cardinality(orders) < MaxOrders
    /\ pre' = DB
    /\ UNCHANGED <<products, outbox, attempts, aside>>
    /\ IF ~ValidOrder(order_data)
       THEN /\ UNCHANGED <<clients, bills, orders, order_details>>
            /\ call' = [op |-> "create_order", order |-> order_data, fault |-> fault,
                        now |-> now, status |-> HTTP_422_UNPROCESSABLE_ENTITY,
                        exc |-> "RequestValidationError", order_id |-> None]
       ELSE LET r == create_order_with_client_and_bill(DB, order_data, now, fault)
            IN  /\ clients' = r.db.clients
                /\ bills' = r.db.bills
                /\ orders' = r.db.orders
                /\ order_details' = r.db.order_details
                /\ call' = [op |-> "create_order", order |-> order_data, fault |-> fault,
                            now |-> now, status |-> IF r.exc = "" THEN HTTP_201_CREATED
                                       ELSE HTTP_400_BAD_REQUEST,
                            exc |-> r.exc, order_id |-> r.order_id]

(***************************************************************************)
(* controllers/client_controller.py, services/client_service.py:           *)
(* POST /clients                                                           *)
(***************************************************************************)
\* ClientService.save behind ClientController.create: a ValueError of the
\* service is answered 409, a new client is saved with its password hashed.
ClientCreate(schema_in) ==
    /\ call = Idle
    /\ pre' = DB
    /\ UNCHANGED <<bills, orders, order_details, products, outbox, attempts, aside>>
    /\ LET existing_client == {c \in clients : c.email = schema_in.email}
           rejected == \/ schema_in.email = ""
                       \/ existing_client # {}
                       \/ schema_in.password = ""
           new_client_model ==
               [id_key |-> NextId(clients), name |-> schema_in.name,
                lastname |-> schema_in.lastname, email |-> schema_in.email,
                telephone |-> schema_in.telephone,
                hashed_password |-> get_password_hash(schema_in.password),
                role |-> schema_in.role]
       IN  IF rejected
           THEN /\ UNCHANGED clients
                /\ call' = [op |-> "client_create", status |-> 409]
           ELSE /\ clients' = clients \cup {new_client_model}
                /\ call' = [op |-> "client_create", status |-> 201]

(***************************************************************************)
(* repositories/base_repository_impl.py: save, for the products table      *)
(***************************************************************************)
\* ProductRepository.save: add, commit, refresh.
ProductSave(name) ==
    /\ call = Idle
    /\ Cardinality(products) < MaxProducts
    /\ pre' = DB
    /\ products' = products \cup {[id_key |-> NextId(products), name |-> name]}
    /\ call' = [op |-> "product_save", status |-> 201]
    /\ UNCHANGED <<clients, bills, orders, order_details, outbox, attempts, aside>>

(***************************************************************************)
(* utils/email_utils.py                                                    *)
(***************************************************************************)
\* The exception create_order_confirmation_html raises on one detail, ""
\* for none: a "product" that is None has no .get (AttributeError), a
\* "price" that is None or a str cannot be formatted with :.2f (TypeError,
\* ValueError); a missing key falls back to the default of .get.
DetailError(detail) ==
    IF detail.product = "None" THEN "AttributeError"
    ELSE IF detail.price = "None" THEN "TypeError"
    ELSE IF detail.price = "str" THEN "ValueError"
    ELSE ""

\* create_order_confirmation_html: the exception of the first detail that
\* has one, "" when the HTML is built.
HtmlError(details) ==
    LET bad == {i \in 1..Len(details) : DetailError(details[i]) # ""}
    IN  IF bad = {} THEN ""
        ELSE DetailError(details[CHOOSE i \in bad : \A j \in bad : i <= j])

\* send_order_confirmation_email.  credentials: EMAIL_HOST_USER and
\* EMAIL_HOST_PASSWORD are set; smtp: how the SMTP session ends.  The HTML
\* is built before the try block, the SMTP session runs inside it.
send_order_confirmation_email(order_id, details, credentials, smtp) ==
    /\ call = Idle
    /\ pre' = DB
    /\ UNCHANGED <<tables, aside>>
    /\ attempts' = attempts \cup {order_id}
    /\ outbox' = IF credentials /\ HtmlError(details) = "" /\ smtp = "sent"
                 THEN outbox \cup {order_id} ELSE outbox
    /\ call' = [op |-> "send_email", order_id |-> order_id, details |-> details,
                credentials |-> credentials,
                exc |-> IF credentials THEN HtmlError(details) ELSE "",
                log |-> IF ~credentials THEN "warning"
                        ELSE IF HtmlError(details) = "" /\ smtp # "sent" THEN "error"
                        ELSE "info"]

\* The response is handed to the client; the server is idle again.
ReturnResponse ==
    /\ call # Idle
    /\ call' = Idle
    /\ pre' = DB
    /\ UNCHANGED <<tables, outbox, attempts, aside>>

(***************************************************************************)
(* Inputs.                                                                 *)
(***************************************************************************)
Emails == {"ana@mail.com", "azulcastroviejo@gmail.com"}

\* An id no row ever has: the tables hold fewer rows.
NoSuchId == MaxOrders + MaxProducts + 3

\* client_id and bill_id as a request may carry them.
IdInputs == {None, 0, 1, NoSuchId}

ItemA == [product_id |-> 1, quantity |-> 2, price |-> 15]

ItemB == [product_id |-> 2, quantity |-> 1, price |-> 5]

BaseOrder ==
    [client_name |-> <<"a", " ", "b">>, client_email |-> "ana@mail.com",
     client_phone |-> "2612077095", shipping_address |-> "Calle Falsa 123",
     payment_method |-> "card", delivery_method |-> DInt(3),
     client_id |-> None, bill_id |-> None, items |-> <<ItemA, ItemB>>,
     subtotal |-> 35, tax |-> 5, shipping_cost |-> 0, total |-> 40]

\* Orders that differ in whom and what they refer to.
RoutingOrders ==
    {[BaseOrder EXCEPT !.client_email = e, !.client_id = c, !.bill_id = b] :
        e \in Emails, c \in IdInputs, b \in IdInputs}

\* The statement of the transaction the database fails.
Faults ==
    {NoFault}
    \cup {[at |-> a, k |-> 0] :
            a \in {"client_insert", "bill_insert", "order_insert", "commit"}}
    \cup {[at |-> "detail_insert", k |-> k] : k \in 1..2}

ClientInputs ==
    {[name |-> <<"a">>, lastname |-> <<"b">>, email |-> e,
      telephone |-> "2612077095", role |-> "USER", password |-> "secret123"] :
        e \in Emails}

(***************************************************************************)
(* The specification of the order workflow: who the order is for, which    *)
(* bill it uses, and which statement fails.                                *)
(***************************************************************************)
Init ==
    /\ clients = {}
    /\ bills = {}
    /\ orders = {}
    /\ order_details = {}
    /\ products = {}
    /\ outbox = {}
    /\ attempts = {}
    /\ cache = [k \in {} |-> {}]
    /\ last = Idle
    /\ inflight = {}
    /\ call = Idle
    /\ pre = [clients |-> {}, bills |-> {}, orders |-> {}, order_details |-> {},
              products |-> {}]

PostClient == \E schema_in \in ClientInputs : ClientCreate(schema_in)

SaveProduct == \E name \in {"notebook"} : ProductSave(name)

PostOrder ==
    \E order_data \in RoutingOrders, now \in Clock, fault \in Faults :
        create_order(order_data, now, fault)

Next ==
    \/ PostClient
    \/ SaveProduct
    \/ PostOrder
    \/ ReturnResponse

Spec == Init /\ [][Next]_vars

(***************************************************************************)
(* Properties of the order workflow.  They read the response in `call` and *)
(* compare the tables with `pre`, the tables as the request found them.    *)
(***************************************************************************)
OrderCall == call.op = "create_order"

Accepted == OrderCall /\ call.status # HTTP_422_UNPROCESSABLE_ENTITY

Created == OrderCall /\ call.status = HTTP_201_CREATED

StoreUnchanged ==
    /\ clients = pre.clients
    /\ bills = pre.bills
    /\ orders = pre.orders
    /\ order_details = pre.order_details

\* The order row the call created.
NewOrder == CHOOSE o \in orders : o.id_key = call.order_id

\* Nothing outside the order's own data stands in the way of the request:
\* no injected failure, every item's product exists, and no bill was issued
\* in the same clock second.
Unhindered ==
    /\ call.fault = NoFault
    /\ \A i \in 1..Len(call.order.items) :
          call.order.items[i].product_id \in Ids(pre.products)
    /\ \A b \in pre.bills : b.date # call.now

\* C1: a valid order with no client_id, no bill_id and an email no client
\* has succeeds and adds exactly one client, one bill, one order and
\* len(items) order details.
C1_NewClientOrderCreatesAll ==
    (/\ Accepted
     /\ Unhindered
     /\ Falsy(call.order.client_id)
     /\ Falsy(call.order.bill_id)
     /\ \A c \in pre.clients : c.email # call.order.client_email)
    => /\ call.status = HTTP_201_CREATED
       /\ Cardinality(clients \ pre.clients) = 1
       /\ Cardinality(bills \ pre.bills) = 1
       /\ Cardinality(orders \ pre.orders) = 1
       /\ Cardinality(order_details \ pre.order_details) = Len(call.order.items)

C3_ReuseClientAndBill ==
    (/\ Accepted
     /\ call.order.client_id \in Ids(pre.clients)
     /\ call.order.bill_id \in Ids(pre.bills))
    => /\ clients = pre.clients
       /\ bills = pre.bills
       /\ Unhindered => Created
       /\ Created => /\ NewOrder.client_id = call.order.client_id
                     /\ NewOrder.bill_id = call.order.bill_id

C3_Witness ==
    /\ Created
    /\ call.order.client_id \in Ids(pre.clients)
    /\ call.order.bill_id \in Ids(pre.bills)

\* C4: without a client_id, when a client with the order's email exists, no
\* client is created or modified and the new order belongs to that client.
C4_ReuseClientByEmail ==
    (/\ Accepted
     /\ Falsy(call.order.client_id)
     /\ \E c \in pre.clients : c.email = call.order.client_email)
    => /\ clients = pre.clients
       /\ Created =>
             \E c \in pre.clients : /\ c.email = call.order.client_email
                                    /\ NewOrder.client_id = c.id_key

\* C4 witness: the order is created for the client found by email, who is
\* not the only client.
C4_Witness ==
    /\ Created
    /\ Falsy(call.order.client_id)
    /\ Cardinality(pre.clients) = 2
    /\ \E c \in pre.clients : c.email = call.order.client_email /\ c.id_key = 1

\* C7: a client_id or bill_id that references no row fails with a
\* not-found condition of its own, and nothing is persisted.
C7_DanglingIdIsNotFound ==
    (/\ Accepted
     /\ call.fault = NoFault
     /\ \/ (~Falsy(call.order.client_id) /\ call.order.client_id \notin Ids(pre.clients))
        \/ (~Falsy(call.order.bill_id) /\ call.order.bill_id \notin Ids(pre.bills)))
    => /\ call.exc = "InstanceNotFoundError"
       /\ call.status = 404
       /\ StoreUnchanged

(***************************************************************************)
(* The specification of the order payload: the delivery method, the items, *)
(* the amounts and the required texts vary; the order is for the client    *)
(* with the order's email and gets a new bill.                             *)
(***************************************************************************)
DeliveryInputs ==
    {DNone}
    \cup {DInt(i) : i \in 0..4}
    \cup {DStr(str) : str \in {"drive_thru", "on_hand", "home_delivery", "pickup", ""}}

ItemZeroQuantity == [product_id |-> 1, quantity |-> 0, price |-> 15]

ItemNegativeQuantity == [product_id |-> 1, quantity |-> 0 - 1, price |-> 15]

ItemZeroPrice == [product_id |-> 2, quantity |-> 1, price |-> 0]

ItemInputs ==
    {<<>>, <<ItemA>>, <<ItemB, ItemA>>, <<ItemA, ItemA>>, <<ItemA, ItemZeroQuantity>>,
     <<ItemNegativeQuantity>>, <<ItemZeroPrice, ItemA>>}

PayloadOrders ==
    {[BaseOrder EXCEPT !.delivery_method = d] : d \in DeliveryInputs}
    \cup {[BaseOrder EXCEPT !.items = it] : it \in ItemInputs}
    \cup {[BaseOrder EXCEPT !.subtotal = 0 - 1], [BaseOrder EXCEPT !.tax = 0 - 1],
          [BaseOrder EXCEPT !.shipping_cost = 0 - 1], [BaseOrder EXCEPT !.total = 0 - 1],
          [BaseOrder EXCEPT !.total = 0], [BaseOrder EXCEPT !.client_name = <<>>],
          [BaseOrder EXCEPT !.client_name = <<" ">>],
          [BaseOrder EXCEPT !.shipping_address = ""]}

PostOrderPayload ==
    \E order_data \in PayloadOrders, now \in Clock :
        create_order(order_data, now, NoFault)

NextPayload ==
    \/ PostClient
    \/ SaveProduct
    \/ PostOrderPayload
    \/ ReturnResponse

SpecPayload == Init /\ [][NextPayload]_vars

\* The delivery methods a request may name, and the absent value.
RecognizedDelivery ==
    {DNone, DInt(1), DInt(2), DInt(3),
     DStr("drive_thru"), DStr("on_hand"), DStr("home_delivery")}

\* The canonical delivery method of a recognized value.
CanonicalDelivery(d) ==
    CASE d \in {DInt(1), DStr("drive_thru")} -> "DRIVE_THRU"
      [] d \in {DInt(2), DStr("on_hand")} -> "ON_HAND"
      [] d \in {DInt(3), DStr("home_delivery"), DNone} -> "HOME_DELIVERY"

NewDetails == order_details \ pre.order_details

\* C6: the created order's total is the input total, and the details of
\* the new order correspond one to one to the input items, each with the
\* item's product_id, quantity and price; no other order's details change.
C6_TotalAndDetails ==
    Created =>
        /\ NewOrder.total = call.order.total
        /\ pre.order_details \subseteq order_details
        /\ {d \in order_details : d.order_id = call.order_id} = NewDetails
        /\ \E f \in [1..Len(call.order.items) -> NewDetails] :
              /\ \A d \in NewDetails : \E i \in 1..Len(call.order.items) : f[i] = d
              /\ \A i, j \in 1..Len(call.order.items) : f[i] = f[j] => i = j
              /\ \A i \in 1..Len(call.order.items) :
                    /\ f[i].product_id = call.order.items[i].product_id
                    /\ f[i].quantity = call.order.items[i].quantity
                    /\ f[i].price = call.order.items[i].price

\* C6 witness: a second order with two different items is created.
C6_Witness ==
    /\ Created
    /\ pre.orders # {}
    /\ Len(call.order.items) = 2
    /\ call.order.items[1] # call.order.items[2]

\* What the schema's field constraints rule out.
RuledOut(o) ==
    \/ Len(o.items) = 0
    \/ \E i \in 1..Len(o.items) : o.items[i].quantity <= 0 \/ o.items[i].price <= 0
    \/ o.subtotal < 0
    \/ o.tax < 0
    \/ o.shipping_cost < 0
    \/ o.total < 0
    \/ Len(o.client_name) = 0
    \/ o.shipping_address = ""

\* C8: an order with no items, an item of quantity <= 0 or price <= 0, a
\* negative amount or an empty client name or shipping address is rejected
\* before the store is touched, so every order detail has a positive
\* quantity and a positive price.
C8_InvalidRejected ==
    /\ (OrderCall /\ RuledOut(call.order)) =>
          /\ call.status = HTTP_422_UNPROCESSABLE_ENTITY
          /\ StoreUnchanged
          /\ products = pre.products
    /\ \A d \in order_details : d.quantity > 0 /\ d.price > 0

\* C8 witness: an order with a zero price is rejected although its client
\* and its products exist.
C8_Witness ==
    /\ OrderCall
    /\ call.status = HTTP_422_UNPROCESSABLE_ENTITY
    /\ \E i \in 1..Len(call.order.items) : call.order.items[i].price <= 0
    /\ \E c \in pre.clients : c.email = call.order.client_email
    /\ Cardinality(pre.products) = 2

(***************************************************************************)
(* The specification of the notification: orders are created and           *)
(* send_order_confirmation_email is called for orders of the store.        *)
(***************************************************************************)
\* An order detail as the dictionary handed to the e-mail: "product" is a
\* dict, None or missing; "price" is a float, a str, None or missing.
GoodDetail == [product |-> "dict", price |-> "float"]

EmailDetailInputs ==
    {<<>>,
     <<GoodDetail>>,
     <<GoodDetail, [product |-> "missing", price |-> "missing"]>>,
     <<[product |-> "None", price |-> "float"]>>,
     <<GoodDetail, [product |-> "dict", price |-> "str"]>>,
     <<[product |-> "dict", price |-> "None"]>>}

SmtpOutcomes == {"sent", "connect_error", "auth_error", "send_error"}

PostOrderBase == \E now \in Clock : create_order(BaseOrder, now, NoFault)

SendEmail ==
    \E order_id \in Ids(orders), details \in EmailDetailInputs,
       credentials \in BOOLEAN, smtp \in SmtpOutcomes :
        send_order_confirmation_email(order_id, details, credentials, smtp)

NextNotify ==
    \/ PostClient
    \/ SaveProduct
    \/ PostOrderBase
    \/ SendEmail
    \/ ReturnResponse

SpecNotify == Init /\ [][NextNotify]_vars

\* C9: when order creation has committed an order, the confirmation e-mail
\* for that order has been attempted, and no attempt is made for an order
\* that is not committed.
C9_CommitFollowedByEmailAttempt ==
    /\ Created => call.order_id \in attempts
    /\ attempts \subseteq Ids(orders)

\* C10: send_order_confirmation_email never raises to its caller and never
\* changes the store, whatever fails inside it.
C10_EmailNeverRaises ==
    call.op = "send_email" => (call.exc = "" /\ DB = pre)

(***************************************************************************)
(* repositories/base_repository_impl.py: find and find_all                 *)
(***************************************************************************)
\* PaginationConfig.MAX_LIMIT, scaled down so that a table can hold more
\* rows than one page.
MAX_LIMIT == 1

\* PaginationConfig.MIN_LIMIT.
MIN_LIMIT == 1

\* The rows of a table in the order the store returns them.
Rows(rows) ==
    CHOOSE q \in [1..Cardinality(rows) -> rows] :
        \A i, j \in 1..Cardinality(rows) : i < j => q[i].id_key < q[j].id_key

\* OFFSET skip LIMIT limit.
Page(q, skip, limit) ==
    LET to == IF skip + limit < Len(q) THEN skip + limit ELSE Len(q)
    IN  SubSeq(q, skip + 1, to)

\* BaseRepositoryImpl.find: the row with this id_key, as the one element of
\* `models`, and the relationships loaded with it, or InstanceNotFoundError.
find(rows, id_key, load_options) ==
    LET found == {r \in rows : r.id_key = id_key}
    IN  IF found = {}
        THEN [exc |-> "InstanceNotFoundError", models |-> <<>>, loaded |-> {}]
        ELSE [exc |-> "", models |-> <<CHOOSE r \in found : TRUE>>,
              loaded |-> load_options]

\* BaseRepositoryImpl.find_all.
find_all(rows, skip, limit, load_options) ==
    IF skip < 0 \/ limit < MIN_LIMIT
    THEN [exc |-> "ValueError", models |-> <<>>, loaded |-> {}]
    ELSE LET clamped == IF limit > MAX_LIMIT THEN MAX_LIMIT ELSE limit
         IN  [exc |-> "", models |-> Page(Rows(rows), skip, clamped),
              loaded |-> load_options]

(***************************************************************************)
(* services/order_service.py, controllers/order_controller.py: GET /orders *)
(* and GET /orders/{order_id}                                              *)
(***************************************************************************)
HTTP_200_OK == 200

HTTP_404_NOT_FOUND == 404

HTTP_500_INTERNAL_SERVER_ERROR == 500

\* OrderResponseSchema: the fields of the response model, read from the
\* attributes of the order.
OrderResponseSchema(order) ==
    [id_key |-> order.id_key, date |-> order.date, total |-> order.total,
     delivery_method |-> order.delivery_method, status |-> order.status,
     client_id |-> order.client_id, bill_id |-> order.bill_id]

\* OrderService.get_order_by_id: find with no loading options.
get_order_by_id(order_id) == find(orders, order_id, {})

\* OrderService.get_all_orders: find_all with no loading options.
get_all_orders(skip, limit) == find_all(orders, skip, limit, {})

\* GET /orders/{order_id}: every exception of the service that is not an
\* HTTPException, InstanceNotFoundError included, is answered 500; 404 is
\* for a service that returns nothing.
get_order(order_id) ==
    /\ call = Idle
    /\ pre' = DB
    /\ UNCHANGED <<tables, outbox, attempts, aside>>
    /\ LET r == get_order_by_id(order_id)
       IN  call' = [op |-> "get_order", order_id |-> order_id, exc |-> r.exc,
                    loaded |-> r.loaded,
                    status |-> IF r.exc # "" THEN HTTP_500_INTERNAL_SERVER_ERROR
                               ELSE IF r.models = <<>> THEN HTTP_404_NOT_FOUND
                               ELSE HTTP_200_OK,
                    body |-> [i \in 1..Len(r.models) |->
                                 OrderResponseSchema(r.models[i])]]

\* GET /orders: every exception is answered 500.
get_orders(skip, limit) ==
    /\ call = Idle
    /\ pre' = DB
    /\ UNCHANGED <<tables, outbox, attempts, aside>>
    /\ LET r == get_all_orders(skip, limit)
       IN  call' = [op |-> "get_orders", skip |-> skip, limit |-> limit,
                    exc |-> r.exc, loaded |-> r.loaded,
                    status |-> IF r.exc # "" THEN HTTP_500_INTERNAL_SERVER_ERROR
                               ELSE HTTP_200_OK,
                    body |-> [i \in 1..Len(r.models) |->
                                 OrderResponseSchema(r.models[i])]]

(***************************************************************************)
(* The specification of the order reads.                                   *)
(***************************************************************************)
OrderIdInputs == {1, 2, NoSuchId}

SkipInputs == {0 - 1, 0, 1}

LimitInputs == {0, 1, MAX_LIMIT + 1}

GetOrder == \E order_id \in OrderIdInputs : get_order(order_id)

GetOrders == \E skip \in SkipInputs, limit \in LimitInputs : get_orders(skip, limit)

NextRead ==
    \/ PostClient
    \/ SaveProduct
    \/ PostOrderBase
    \/ GetOrder
    \/ GetOrders
    \/ ReturnResponse

SpecRead == Init /\ [][NextRead]_vars

\* The relationships an order response carries.
Resolved(body) == {f \in {"client", "order_details"} : f \in DOMAIN body}

\* C11: an order fetched by id, and every order of a page of the listing,
\* comes back with its client and its line items in the same response.
C11_OrderReadIsEager ==
    (call.op \in {"get_order", "get_orders"} /\ call.status = HTTP_200_OK)
        => \A i \in 1..Len(call.body) :
               Resolved(call.body[i]) = {"client", "order_details"}

\* C20: GET /orders/{order_id} answers 404 for an id no order has and 200
\* exactly when the order exists.
C20_MissingOrderIs404 ==
    call.op = "get_order"
        => /\ call.order_id \notin Ids(orders) => call.status = HTTP_404_NOT_FOUND
           /\ call.status = HTTP_200_OK <=> call.order_id \in Ids(orders)

(***************************************************************************)
(* repositories/base_repository_impl.py: update                            *)
(***************************************************************************)
PROTECTED_ATTRIBUTES == {"id_key", "_sa_instance_state"}

\* key.startswith('_'), for the keys the model uses.
StartsWithUnderscore(key) == key \in {"_sa_instance_state", "_name"}

\* {col.name for col in self.model.__table__.columns} of the products table
\* as the model keeps it.
ProductColumns == {"id_key", "name"}

\* The loop over changes.items(): a None value, a key that starts with an
\* underscore and a protected key are skipped before the key is looked up
\* in the columns; changes is the dict as the sequence of its items.
\* The loop without the test for None: a None value is set like any other.
RECURSIVE SetAttributes_sets_none(_, _, _, _)
SetAttributes_sets_none(instance, changes, i, allowed_columns) ==
    IF i > Len(changes) THEN [exc |-> "", instance |-> instance]
    ELSE LET key == changes[i][1]
             value == changes[i][2]
         IN  IF StartsWithUnderscore(key) \/ key \in PROTECTED_ATTRIBUTES
             THEN SetAttributes_sets_none(instance, changes, i + 1, allowed_columns)
             ELSE IF key \notin allowed_columns
             THEN [exc |-> "ValueError", instance |-> instance]
             ELSE SetAttributes_sets_none([instance EXCEPT ![key] = value], changes,
                                          i + 1, allowed_columns)

RECURSIVE SetAttributes(_, _, _, _)
SetAttributes(instance, changes, i, allowed_columns) ==
    IF i > Len(changes) THEN [exc |-> "", instance |-> instance]
    ELSE LET key == changes[i][1]
             value == changes[i][2]
         IN  IF value = NULL \/ StartsWithUnderscore(key) \/ key \in PROTECTED_ATTRIBUTES
             THEN SetAttributes(instance, changes, i + 1, allowed_columns)
             ELSE IF key \notin allowed_columns
             THEN [exc |-> "ValueError", instance |-> instance]
             ELSE SetAttributes([instance EXCEPT ![key] = value], changes, i + 1,
                                allowed_columns)

\* BaseRepositoryImpl.update: the rows after the call.  An exception rolls
\* the session back, so the attributes set before it are never written.
update(rows, id_key, changes, allowed_columns) ==
    LET f == find(rows, id_key, {})
    IN  IF f.exc # "" THEN [exc |-> f.exc, rows |-> rows, models |-> <<>>]
        ELSE LET r == SetAttributes(f.models[1], changes, 1, allowed_columns)
             IN  IF r.exc # "" THEN [exc |-> r.exc, rows |-> rows, models |-> <<>>]
                 ELSE [exc |-> "", rows |-> (rows \ {f.models[1]}) \cup {r.instance},
                       models |-> <<r.instance>>]

\* ProductRepository.update.
ProductUpdate(id_key, changes) ==
    /\ call = Idle
    /\ pre' = DB
    /\ UNCHANGED <<clients, bills, orders, order_details, outbox, attempts, aside>>
    /\ LET r == update(products, id_key, changes, ProductColumns)
       IN  /\ products' = r.rows
           /\ call' = [op |-> "update", id_key |-> id_key, changes |-> changes,
                       exc |-> r.exc, models |-> r.models]

(***************************************************************************)
(* repositories/product_repository.py, category_repository.py: find_all    *)
(***************************************************************************)
\* ProductRepository.find_all: OFFSET and LIMIT as given; the database
\* refuses a negative OFFSET or LIMIT.
ProductRepository_find_all(rows, skip, limit) ==
    IF skip < 0 \/ limit < 0
    THEN [exc |-> "DataError", models |-> <<>>]
    ELSE [exc |-> "", models |-> Page(Rows(rows), skip, limit)]

\* CategoryRepository.find_all: self.db is not an attribute of the
\* repository, which keeps its session in _session.
CategoryRepository_find_all(skip, limit) ==
    [exc |-> "AttributeError", models |-> <<>>]

\* One find_all call on the repository of `entity`.
FindAll(entity, skip, limit) ==
    /\ call = Idle
    /\ pre' = DB
    /\ UNCHANGED <<tables, outbox, attempts, aside>>
    /\ LET r == CASE entity = "clients" -> find_all(clients, skip, limit, {})
                  [] entity = "products" ->
                         ProductRepository_find_all(products, skip, limit)
                  [] entity = "categories" -> CategoryRepository_find_all(skip, limit)
       IN  call' = [op |-> "find_all", entity |-> entity, skip |-> skip,
                    limit |-> limit, exc |-> r.exc, models |-> r.models]

(***************************************************************************)
(* The specification of the repositories.                                  *)
(***************************************************************************)
ChangesInputs ==
    {<<<<"name", "laptop">>>>,
     <<<<"name", "laptop">>, <<"bogus", "x">>>>,
     <<<<"bogus", "x">>, <<"name", "laptop">>>>,
     <<<<"name", "laptop">>, <<"bogus", NULL>>>>,
     <<<<"_name", "x">>, <<"name", "notebook">>>>,
     <<<<"id_key", "7">>, <<"name", NULL>>>>}

UpdateProduct ==
    \E id_key \in OrderIdInputs, changes \in ChangesInputs : ProductUpdate(id_key, changes)

FindAllRows ==
    \E entity \in {"clients", "products", "categories"},
       skip \in SkipInputs, limit \in LimitInputs : FindAll(entity, skip, limit)

NextRepo ==
    \/ PostClient
    \/ SaveProduct
    \/ UpdateProduct
    \/ FindAllRows
    \/ ReturnResponse

SpecRepo == Init /\ [][NextRepo]_vars

\* The keys of a changes dict that are no column of the products table.
UnknownKeys(changes) ==
    {changes[i][1] : i \in 1..Len(changes)} \ ProductColumns

\* C12: update with a key that is no column raises ValueError and leaves the
\* stored row as it was.
C12_UnknownFieldRejected ==
    (/\ call.op = "update"
     /\ call.id_key \in Ids(pre.products)
     /\ UnknownKeys(call.changes) # {})
        => (call.exc = "ValueError" /\ DB = pre)

\* C17: find_all of every repository refuses a negative skip, returns at
\* most MAX_LIMIT rows and clamps a larger limit instead of refusing it.
C17_FindAllClamped ==
    call.op = "find_all"
        => /\ call.skip < 0 => call.exc # ""
           /\ Len(call.models) <= MAX_LIMIT
           /\ (call.skip >= 0 /\ call.limit > MAX_LIMIT) => call.exc = ""

(***************************************************************************)
(* The cache behind ProductService: get, set, delete, delete_pattern and   *)
(* build_key of the cache collaborator.  `cache` maps each key it holds to  *)
(* its value; `available`  tells whether the call reaches the cache       *)
(* store, and a call that does not reach it finds nothing and changes      *)
(* nothing.                                                                *)
(***************************************************************************)
\* The composite key: prefix, operation, parameters.
build_key(prefix, operation, params) ==
    [prefix |-> prefix, operation |-> operation, params |-> params]

\* get: the cached value as a one-element sequence, <<>> for None.
CacheGet(c, available, key) ==
    IF available /\ key \in DOMAIN c THEN <<c[key]>> ELSE <<>>

CacheSet(c, available, key, value) ==
    IF available
    THEN [k \in DOMAIN c \cup {key} |-> IF k = key THEN value ELSE c[k]]
    ELSE c

CacheDelete(c, available, key) ==
    IF available THEN [k \in DOMAIN c \ {key} |-> c[k]] ELSE c

\* delete_pattern("<prefix>:<operation>:*").
CacheDeletePattern(c, available, prefix, operation) ==
    IF available
    THEN [k \in {j \in DOMAIN c : ~(j.prefix = prefix /\ j.operation = operation)}
             |-> c[k]]
    ELSE c

(***************************************************************************)
(* services/product_service.py                                             *)
(***************************************************************************)
cache_prefix == "products"

\* product.model_dump(): the fields of the schema as a dict.
model_dump(product) == [id_key |-> product.id_key, name |-> product.name]

\* ProductSchema(**cached) and ProductSchema.model_validate(model).
ProductSchema(p) == [id_key |-> p.id_key, name |-> p.name]

Schemas(models) == [i \in 1..Len(models) |-> ProductSchema(models[i])]

\* What a ProductService call leaves: the products table, the cache, the
\* exception raised ("" for none), the schemas returned, whether the cache
\* answered and how many queries the store ran.
Outcome(rows, c, exc, result, hit, reads) ==
    [products |-> rows, cache |-> c, exc |-> exc, result |-> result,
     hit |-> hit, reads |-> reads]

\* _invalidate_caches: the list keys, then the category keys.
invalidate_caches(c, available) ==
    CacheDeletePattern(CacheDeletePattern(c, available, cache_prefix, "list"),
                       available, cache_prefix, "category")

\* A get_one that does not store what it read.
get_one_without_set(rows, c, id_key, available) ==
    LET cached_product == CacheGet(c, available, build_key(cache_prefix, "id", <<id_key>>))
    IN  IF cached_product # <<>>
        THEN Outcome(rows, c, "", <<ProductSchema(cached_product[1])>>, TRUE, 0)
        ELSE LET f == find(rows, id_key, {})
             IN  Outcome(rows, c, f.exc, Schemas(f.models), FALSE, 1)

\* ProductService.get_one.
get_one(rows, c, id_key, available) ==
    LET cache_key == build_key(cache_prefix, "id", <<id_key>>)
        cached_product == CacheGet(c, available, cache_key)
    IN  IF cached_product # <<>>
        THEN Outcome(rows, c, "", <<ProductSchema(cached_product[1])>>, TRUE, 0)
        ELSE LET f == find(rows, id_key, {})
             IN  IF f.exc # "" THEN Outcome(rows, c, f.exc, <<>>, FALSE, 1)
                 ELSE Outcome(rows,
                              CacheSet(c, available, cache_key,
                                       model_dump(ProductSchema(f.models[1]))),
                              "", Schemas(f.models), FALSE, 1)

\* ProductService.get_all.
get_all(rows, c, skip, limit, available) ==
    LET cache_key == build_key(cache_prefix, "list", <<skip, limit>>)
        cached_products == CacheGet(c, available, cache_key)
    IN  IF cached_products # <<>>
        THEN Outcome(rows, c, "", Schemas(cached_products[1]), TRUE, 0)
        ELSE LET f == ProductRepository_find_all(rows, skip, limit)
             IN  IF f.exc # "" THEN Outcome(rows, c, f.exc, <<>>, FALSE, 1)
                 ELSE Outcome(rows,
                              CacheSet(c, available, cache_key,
                                       [i \in 1..Len(f.models) |->
                                           model_dump(ProductSchema(f.models[i]))]),
                              "", Schemas(f.models), FALSE, 1)

\* ProductService.get_products_by_category: on a miss it calls
\* ProductRepository.get_products_by_category, whose first statement uses
\* `select`, a name product_repository.py never imports.
get_products_by_category(rows, c, category_id, skip, limit, available) ==
    LET cache_key == build_key(cache_prefix, "category", <<category_id, skip, limit>>)
        cached_products == CacheGet(c, available, cache_key)
    IN  IF cached_products # <<>>
        THEN Outcome(rows, c, "", Schemas(cached_products[1]), TRUE, 0)
        ELSE Outcome(rows, c, "NameError", <<>>, FALSE, 0)

\* ProductService.save.
ProductService_save(rows, c, schema, available) ==
    LET product == [id_key |-> NextId(rows), name |-> schema.name]
    IN  Outcome(rows \cup {product}, invalidate_caches(c, available), "",
                <<ProductSchema(product)>>, FALSE, 0)

\* ProductService.update.
ProductService_update(rows, c, id_key, schema, available) ==
    LET r == update(rows, id_key, <<<<"name", schema.name>>>>, ProductColumns)
    IN  IF r.exc # "" THEN Outcome(rows, c, r.exc, <<>>, FALSE, 0)
        ELSE Outcome(r.rows,
                     invalidate_caches(
                         CacheDelete(c, available,
                                     build_key(cache_prefix, "id", <<id_key>>)),
                         available),
                     "", Schemas(r.models), FALSE, 0)

\* A sales check that finds no sale.
has_sales_never(details, id_key) == FALSE

\* select(OrderDetailModel).where(product_id == id_key).limit(1) ... first().
has_sales(details, id_key) == \E d \in details : d.product_id = id_key

\* A delete that leaves the item key of the product in the cache.
delete_keeps_item(rows, details, c, id_key, available) ==
    IF has_sales(details, id_key)
    THEN Outcome(rows, c, "ValueError", <<>>, FALSE, 0)
    ELSE LET f == find(rows, id_key, {})
         IN  IF f.exc # "" THEN Outcome(rows, c, f.exc, <<>>, FALSE, 0)
             ELSE Outcome(rows \ {f.models[1]}, invalidate_caches(c, available),
                          "", <<>>, FALSE, 0)

\* ProductService.delete.
delete(rows, details, c, id_key, available) ==
    IF has_sales(details, id_key)
    THEN Outcome(rows, c, "ValueError", <<>>, FALSE, 0)
    ELSE LET f == find(rows, id_key, {})
         IN  IF f.exc # "" THEN Outcome(rows, c, f.exc, <<>>, FALSE, 0)
             ELSE Outcome(rows \ {f.models[1]},
                          invalidate_caches(
                              CacheDelete(c, available,
                                          build_key(cache_prefix, "id", <<id_key>>)),
                              available),
                          "", <<>>, FALSE, 0)

\* One ProductService call with outcome o.  `last` keeps the call for the
\* next one when it was a get_one or an update that succeeded with the
\* cache available, and is Idle after any other call.
Serve(op, args, available, o) ==
    /\ pre' = DB
    /\ products' = o.products
    /\ cache' = o.cache
    /\ last' = IF available /\ o.exc = ""
                  /\ op \in {"ProductService.get_one", "ProductService.update"}
               THEN [op |-> op, id_key |-> args.id_key, result |-> o.result]
               ELSE Idle
    /\ call' = [op |-> op, args |-> args, available |-> available, exc |-> o.exc,
                result |-> o.result, hit |-> o.hit, reads |-> o.reads,
                prior |-> last, cache_was |-> cache]
    /\ UNCHANGED <<clients, bills, orders, order_details, outbox, attempts, inflight>>

ProductGetOne(id_key, available) ==
    /\ call = Idle
    /\ Serve("ProductService.get_one", [id_key |-> id_key], available,
             get_one(products, cache, id_key, available))

ProductGetAll(skip, limit, available) ==
    /\ call = Idle
    /\ Serve("ProductService.get_all", [skip |-> skip, limit |-> limit], available,
             get_all(products, cache, skip, limit, available))

ProductGetByCategory(category_id, skip, limit, available) ==
    /\ call = Idle
    /\ Serve("ProductService.get_products_by_category",
             [category_id |-> category_id, skip |-> skip, limit |-> limit], available,
             get_products_by_category(products, cache, category_id, skip, limit, available))

ProductServiceSave(schema, available) ==
    /\ call = Idle
    /\ Cardinality(products) < MaxProducts
    /\ Serve("ProductService.save", [schema |-> schema], available,
             ProductService_save(products, cache, schema, available))

ProductServiceUpdate(id_key, schema, available) ==
    /\ call = Idle
    /\ Serve("ProductService.update", [id_key |-> id_key, schema |-> schema], available,
             ProductService_update(products, cache, id_key, schema, available))

ProductServiceDelete(id_key, available) ==
    /\ call = Idle
    /\ Serve("ProductService.delete", [id_key |-> id_key], available,
             delete(products, order_details, cache, id_key, available))

(***************************************************************************)
(* The specification of the product service and its cache.                 *)
(***************************************************************************)
ProductIdInputs == {1, 2, NoSuchId}

\* skip and limit of a listing: a page that holds every product, and a
\* negative skip.
PageInputs == {<<0, MaxProducts>>, <<0 - 1, MaxProducts>>}

\* An order for product 1 alone, so that product 2 has no sales.
OrderOfProduct1 == [BaseOrder EXCEPT !.items = <<ItemA>>, !.subtotal = 30, !.total = 35]

\* The client of that order registers.
PostClientOfOrder ==
    \E schema_in \in {c \in ClientInputs : c.email = OrderOfProduct1.client_email} :
        ClientCreate(schema_in)

PostOrderOfProduct1 == create_order(OrderOfProduct1, 1, NoFault)

GetOne == \E id_key \in ProductIdInputs, available \in BOOLEAN : ProductGetOne(id_key, available)

GetAll ==
    \E page \in PageInputs, available \in BOOLEAN :
        ProductGetAll(page[1], page[2], available)

GetByCategory ==
    \E page \in PageInputs, available \in BOOLEAN :
        ProductGetByCategory(1, page[1], page[2], available)

SaveProductCached ==
    \E available \in BOOLEAN : ProductServiceSave([name |-> "notebook"], available)

UpdateProductCached ==
    \E id_key \in ProductIdInputs, available \in BOOLEAN :
        ProductServiceUpdate(id_key, [name |-> "laptop"], available)

DeleteProductCached ==
    \E id_key \in ProductIdInputs, available \in BOOLEAN :
        ProductServiceDelete(id_key, available)

NextCache ==
    \/ PostClientOfOrder
    \/ PostOrderOfProduct1
    \/ GetOne
    \/ GetAll
    \/ GetByCategory
    \/ SaveProductCached
    \/ UpdateProductCached
    \/ DeleteProductCached
    \/ ReturnResponse

SpecCache == Init /\ [][NextCache]_vars

(***************************************************************************)
(* Properties of the product service.  `call.prior` is the ProductService  *)
(* call before this one, `call.cache_was` the cache as the call found it.  *)
(***************************************************************************)
ProductReads ==
    {"ProductService.get_one", "ProductService.get_all",
     "ProductService.get_products_by_category"}

ProductWrites ==
    {"ProductService.save", "ProductService.update", "ProductService.delete"}

\* The product has a line item in some order.
Sold(id_key) == \E d \in order_details : d.product_id = id_key

ItemKey(id_key) == [prefix |-> "products", operation |-> "id", params |-> <<id_key>>]

\* The schemas of the products the store holds now, as one page.
StoredPage(skip, limit) ==
    LET q == Rows(products)
    IN  [i \in 1..Len(Page(q, skip, limit)) |->
            [id_key |-> Page(q, skip, limit)[i].id_key,
             name |-> Page(q, skip, limit)[i].name]]

StoredProduct(id_key) ==
    LET r == CHOOSE p \in products : p.id_key = id_key
    IN  <<[id_key |-> r.id_key, name |-> r.name]>>

\* C13: delete of a product with a line item raises ValueError and leaves
\* the product row and the cache as they were; a product without line items
\* is deleted.
C13_DeleteWithSalesRejected ==
    call.op = "ProductService.delete"
        => /\ Sold(call.args.id_key)
                => /\ call.exc = "ValueError"
                   /\ products = pre.products
                   /\ call.args.id_key \in Ids(products)
                   /\ cache = call.cache_was
           /\ (~Sold(call.args.id_key) /\ call.args.id_key \in Ids(pre.products))
                => (call.exc = "" /\ call.args.id_key \notin Ids(products))

\* A delete is refused for a sold product while the cache holds entries.
C13_Witness ==
    /\ call.op = "ProductService.delete"
    /\ Sold(call.args.id_key)
    /\ call.exc = "ValueError"
    /\ DOMAIN call.cache_was # {}

\* C14: a get_one that follows a get_one of the same id, both with the cache
\* available, is answered from the cache without a store read and returns
\* what the first returned.
C14_SecondReadFromCache ==
    (/\ call.op = "ProductService.get_one"
     /\ call.available
     /\ call.prior.op = "ProductService.get_one"
     /\ call.prior.id_key = call.args.id_key)
        => /\ call.exc = ""
           /\ call.hit
           /\ call.reads = 0
           /\ call.result = call.prior.result

\* The first get_one read the store and the second was served the entry.
C14_Witness ==
    /\ call.op = "ProductService.get_one"
    /\ call.available
    /\ call.prior.op = "ProductService.get_one"
    /\ call.prior.id_key = call.args.id_key
    /\ call.reads = 0
    /\ call.result = StoredProduct(call.args.id_key)
    /\ ItemKey(call.args.id_key) \in DOMAIN cache

\* C15: after a successful update the cache holds neither the item key of
\* the product nor a list or category key, and the read that follows it
\* (get_one of the product, get_all, get_products_by_category) reads the
\* store and returns its data.
C15_UpdateInvalidates ==
    /\ (call.op = "ProductService.update" /\ call.available /\ call.exc = "")
            => \A k \in DOMAIN cache :
                   /\ k # ItemKey(call.args.id_key)
                   /\ k.operation \notin {"list", "category"}
    /\ (/\ call.op \in ProductReads
        /\ call.available
        /\ call.prior.op = "ProductService.update"
        /\ call.op = "ProductService.get_one" => call.args.id_key = call.prior.id_key
        /\ call.op # "ProductService.get_one" => call.args.skip >= 0)
            => /\ call.exc = ""
               /\ ~call.hit
               /\ call.op = "ProductService.get_one"
                    => (call.reads = 1 /\ call.result = StoredProduct(call.args.id_key))
               /\ call.op = "ProductService.get_all"
                    => (call.reads = 1 /\
                        call.result = StoredPage(call.args.skip, call.args.limit))
               /\ call.op = "ProductService.get_products_by_category"
                    => call.reads = 1

\* C16: with the cache out of reach every read returns the store's data and
\* every write succeeds.
C16_CacheDownDegrades ==
    (call.op \in ProductReads \cup ProductWrites /\ ~call.available)
        => /\ (call.op = "ProductService.get_one" /\ call.args.id_key \in Ids(products))
                => (call.exc = "" /\ call.result = StoredProduct(call.args.id_key))
           /\ (call.op = "ProductService.get_all" /\ call.args.skip >= 0)
                => (call.exc = "" /\
                    call.result = StoredPage(call.args.skip, call.args.limit))
           /\ (call.op = "ProductService.get_products_by_category"
               /\ call.args.skip >= 0)
                => call.exc = ""
           /\ call.op = "ProductService.save"
                => (call.exc = "" /\ products # pre.products)
           /\ (call.op = "ProductService.update"
               /\ call.args.id_key \in Ids(pre.products))
                => (call.exc = "" /\
                    StoredProduct(call.args.id_key)[1].name = call.args.schema.name)
           /\ (call.op = "ProductService.delete"
               /\ call.args.id_key \in Ids(pre.products)
               /\ ~Sold(call.args.id_key))
                => (call.exc = "" /\ call.args.id_key \notin Ids(products))

(***************************************************************************)
(* The bill number of the order workflow, under Spec.                      *)
(***************************************************************************)
\* The client of the request is in the store: by its id, or by the email
\* of the order when no id is given.
ClientKnown ==
    \E c \in pre.clients :
        IF Falsy(call.order.client_id) THEN c.email = call.order.client_email
        ELSE c.id_key = call.order.client_id

\* C19: no two bills share a bill_number, and an order that needs a new
\* bill is never refused because of the number generated for it, whatever
\* the clock second it is created in.
C19_BillNumbersNeverCollide ==
    /\ \A b1, b2 \in bills : b1.bill_number = b2.bill_number => b1.id_key = b2.id_key
    /\ (/\ Accepted
        /\ call.fault = NoFault
        /\ Falsy(call.order.bill_id)
        /\ ClientKnown
        /\ \A i \in 1..Len(call.order.items) :
              call.order.items[i].product_id \in Ids(pre.products))
            => Created

(***************************************************************************)
(* services/order_service.py: two order requests side by side.  A request  *)
(* first looks its client up by email (lines 38-42) and later, on the      *)
(* store as it is by then, does the rest (lines 44-127): the store's       *)
(* unique index makes the insert of a client wait for a transaction that   *)
(* inserted the same email, so the rest of a request sees the other        *)
(* request either committed or rolled back.  `inflight` holds the requests *)
(* that are past their lookup.                                             *)
(***************************************************************************)
HTTP_409_CONFLICT == 409

\* The lookup by email: the id of the client found, None for no client.
LookupByEmail(rows, email) ==
    LET existing == {c \in rows : c.email = email}
    IN  IF existing = {} THEN None ELSE (CHOOSE c \in existing : TRUE).id_key

\* Lines 44-62 after the lookup: the client found, or a new client.
ClientAfterLookup(s, order_data, existing_client) ==
    IF existing_client # None THEN [s EXCEPT !.client_id = existing_client]
    ELSE LET new_client == NewClient(order_data, NextId(s.db.clients))
             t == Flush(s, "clients", new_client,
                        ClientInsertable(s.db.clients, new_client), FALSE)
         IN  IF t.exc # "" THEN t
             ELSE [t EXCEPT !.client_id = new_client.id_key]

\* create_order_with_client_and_bill from line 44 on, for a request whose
\* lookup returned existing_client.
create_order_after_lookup(db, order_data, existing_client, now) ==
    LET Then(S, Step(_)) == {IF s.exc # "" THEN s ELSE Step(s) : s \in S}
        Paso1(s) == ClientAfterLookup(s, order_data, existing_client)
        Paso2(s) == ResolveBill(s, order_data, now, NoFault)
        Paso3(s) == InsertOrder(s, order_data, now, NoFault)
        Paso4(s) == AddOrderDetails(s, order_data)
        DoCommit(s) == Commit(s, NoFault)
        end == Then(Then(Then(Then(Then({Begin(db)}, Paso1), Paso2), Paso3), Paso4),
                    DoCommit)
    IN  CHOOSE r \in {IF s.exc = "" THEN [db |-> s.db, exc |-> "", order_id |-> s.order_id]
                      ELSE [db |-> Rollback(db, s), exc |-> s.exc, order_id |-> None] :
                          s \in end} : TRUE

\* Two requests race when both looked the same email up and found nobody.
Rivals(r1, r2) ==
    /\ r1.rid # r2.rid
    /\ r1.order.client_email = r2.order.client_email
    /\ r1.existing_client = None
    /\ r2.existing_client = None

\* POST /orders up to the lookup of the client.
create_order_lookup(rid, order_data) ==
    /\ \A r \in inflight : r.rid # rid
    /\ ValidOrder(order_data)
    /\ Falsy(order_data.client_id)
    /\ LET me == [rid |-> rid, order |-> order_data, raced |-> FALSE,
                  existing_client |-> LookupByEmail(clients, order_data.client_email)]
       IN  inflight' = {[r EXCEPT !.raced = @ \/ Rivals(r, me)] : r \in inflight}
                       \cup {[me EXCEPT !.raced = \E r \in inflight : Rivals(r, me)]}
    /\ UNCHANGED <<tables, outbox, attempts, call, pre, cache, last>>

\* POST /orders from the lookup on, and the answer of create_order.
create_order_resume(rid, now) ==
    /\ call = Idle
    /\ Cardinality(orders) < MaxOrders
    /\ \E me \in inflight :
          /\ me.rid = rid
          /\ inflight' = inflight \ {me}
          /\ LET r == create_order_after_lookup(DB, me.order, me.existing_client, now)
             IN  /\ clients' = r.db.clients
                 /\ bills' = r.db.bills
                 /\ orders' = r.db.orders
                 /\ order_details' = r.db.order_details
                 /\ call' = [op |-> "create_order", order |-> me.order,
                             fault |-> NoFault, now |-> now,
                             status |-> IF r.exc = "" THEN HTTP_201_CREATED
                                        ELSE HTTP_400_BAD_REQUEST,
                             exc |-> r.exc, order_id |-> r.order_id,
                             existing_client |-> me.existing_client,
                             raced |-> me.raced]
    /\ pre' = DB
    /\ UNCHANGED <<products, outbox, attempts, cache, last>>

(***************************************************************************)
(* The specification of concurrent order creation.                         *)
(***************************************************************************)
RequestIds == {1, 2}

RaceOrders == {[BaseOrder EXCEPT !.client_email = e] : e \in Emails}

LookupClient ==
    \E rid \in RequestIds, order_data \in RaceOrders : create_order_lookup(rid, order_data)

ResumeOrder == \E rid \in RequestIds, now \in Clock : create_order_resume(rid, now)

NextRace ==
    \/ PostClient
    \/ SaveProduct
    \/ LookupClient
    \/ ResumeOrder
    \/ ReturnResponse

SpecRace == Init /\ [][NextRace]_vars

\* C18: of two order requests that both found no client for the same email
\* at most one client row with that email is committed, and the request
\* whose insert meets a row with that email is answered 409, not the status
\* of a generic or a validation error.
C18_RaceLoserGetsConflict ==
    /\ \A c1, c2 \in clients : c1.email = c2.email => c1.id_key = c2.id_key
    /\ (/\ OrderCall
        /\ call.raced
        /\ call.existing_client = None
        /\ \E c \in pre.clients : c.email = call.order.client_email)
            => /\ call.status = HTTP_409_CONFLICT
               /\ call.status \notin {HTTP_400_BAD_REQUEST, HTTP_422_UNPROCESSABLE_ENTITY}

(***************************************************************************)
(* repositories/base_repository_impl.py: remove; services/order_service.py *)
(* and controllers/order_controller.py: PUT and DELETE /orders/{order_id}  *)
(***************************************************************************)
HTTP_204_NO_CONTENT == 204

\* BaseRepositoryImpl.remove: find, delete, commit.  `refused` tells that the
\* store refuses the delete (a row still refers to this one); the session
\* is then rolled back.  The method returns None.
remove(rows, id_key, refused) ==
    LET f == find(rows, id_key, {})
    IN  IF f.exc # "" THEN [exc |-> f.exc, rows |-> rows]
        ELSE IF refused THEN [exc |-> "IntegrityError", rows |-> rows]
        ELSE [exc |-> "", rows |-> rows \ {f.models[1]}]

\* The columns of the orders table.
OrderColumns ==
    {"id_key", "date", "total", "delivery_method", "status", "client_id", "bill_id"}

\* A str of the payload from its characters.
RECURSIVE Concat(_)
Concat(chars) == IF chars = <<>> THEN "" ELSE Head(chars) \o Concat(Tail(chars))

\* order_data.model_dump(exclude_unset=True): the fields the payload sets,
\* in the order OrderSchema declares them.
OrderDump(order_data) ==
    <<<<"client_name", Concat(order_data.client_name)>>,
      <<"client_email", order_data.client_email>>,
      <<"client_phone", order_data.client_phone>>,
      <<"shipping_address", order_data.shipping_address>>,
      <<"payment_method", order_data.payment_method>>,
      <<"delivery_method", order_data.delivery_method>>,
      <<"items", order_data.items>>,
      <<"subtotal", order_data.subtotal>>,
      <<"tax", order_data.tax>>,
      <<"shipping_cost", order_data.shipping_cost>>,
      <<"total", order_data.total>>>>

\* PUT /orders/{order_id}: OrderService.update_order passes the dumped
\* payload to the repository; every exception is answered 400.
update_order(order_id, order_data) ==
    /\ call = Idle
    /\ pre' = DB
    /\ UNCHANGED <<clients, bills, order_details, products, outbox, attempts, aside>>
    /\ IF ~ValidOrder(order_data)
       THEN /\ UNCHANGED orders
            /\ call' = [op |-> "update_order", order_id |-> order_id,
                        order |-> order_data, exc |-> "RequestValidationError",
                        status |-> HTTP_422_UNPROCESSABLE_ENTITY]
       ELSE LET r == update(orders, order_id, OrderDump(order_data), OrderColumns)
            IN  /\ orders' = r.rows
                /\ call' = [op |-> "update_order", order_id |-> order_id,
                            order |-> order_data, exc |-> r.exc,
                            status |-> IF r.exc # "" THEN HTTP_400_BAD_REQUEST
                                       ELSE IF r.models = <<>> THEN HTTP_404_NOT_FOUND
                                       ELSE HTTP_200_OK]

\* DELETE /orders/{order_id}: OrderService.delete_order returns what remove
\* returns, None, so `if not deleted` answers 404 after a delete that went
\* through; every exception is answered 400.  on_delete is what the store
\* does with the line items of the order: delete them with it ("cascade")
\* or refuse the delete ("restrict").
delete_order(order_id, on_delete) ==
    /\ call = Idle
    /\ pre' = DB
    /\ UNCHANGED <<clients, bills, products, outbox, attempts, aside>>
    /\ LET referred == \E d \in order_details : d.order_id = order_id
           r == remove(orders, order_id, referred /\ on_delete = "restrict")
           deleted == <<>>
       IN  /\ orders' = r.rows
           /\ order_details' = IF r.exc = ""
                               THEN {d \in order_details : d.order_id # order_id}
                               ELSE order_details
           /\ call' = [op |-> "delete_order", order_id |-> order_id,
                       on_delete |-> on_delete, exc |-> r.exc,
                       status |-> IF r.exc # "" THEN HTTP_400_BAD_REQUEST
                                  ELSE IF deleted = <<>> THEN HTTP_404_NOT_FOUND
                                  ELSE HTTP_204_NO_CONTENT]

(***************************************************************************)
(* The specification of the order writes.                                  *)
(***************************************************************************)
PutOrders ==
    {[OrderOfProduct1 EXCEPT !.total = 45], [OrderOfProduct1 EXCEPT !.items = <<>>]}

PutOrder ==
    \E order_id \in OrderIdInputs, order_data \in PutOrders :
        update_order(order_id, order_data)

DeleteOrder ==
    \E order_id \in OrderIdInputs, on_delete \in {"cascade", "restrict"} :
        delete_order(order_id, on_delete)

NextOrderWrite ==
    \/ PostClientOfOrder
    \/ SaveProduct
    \/ PostOrderOfProduct1
    \/ PutOrder
    \/ DeleteOrder
    \/ ReturnResponse

SpecOrderWrite == Init /\ [][NextOrderWrite]_vars

\* C22: DELETE of an existing order removes it and answers 204; 404 is
\* answered only for an order that did not exist.
C22_DeleteOrderAnswers204 ==
    call.op = "delete_order"
        => /\ call.order_id \in Ids(pre.orders)
                => (call.order_id \notin Ids(orders)
                    /\ call.status = HTTP_204_NO_CONTENT)
           /\ call.status = HTTP_404_NOT_FOUND => call.order_id \notin Ids(pre.orders)

\* C23: PUT of a valid payload on an existing order succeeds and the order
\* takes the total of the payload.
C23_PutOrderUpdatesTotal ==
    (/\ call.op = "update_order"
     /\ ValidOrder(call.order)
     /\ call.order_id \in Ids(pre.orders))
        => /\ call.status = HTTP_200_OK
           /\ \E o \in orders : o.id_key = call.order_id /\ o.total = call.order.total

(***************************************************************************)
(* repositories/base_repository_impl.py: the transaction of each mutating  *)
(* operation.                                                              *)
(***************************************************************************)
\* Where the session fails during one operation: nowhere, at commit() (a
\* refused constraint, a lost connection) or at the refresh() that follows
\* the commit (a lost connection, a row another transaction deleted).
SessionFaults == {"none", "commit", "refresh"}

\* try: <work>; commit(); refresh() / except: rollback(); raise.
\* r is the outcome of the work and of a commit that goes through.  A
\* commit that fails leaves the store as it was; a refresh that fails
\* comes after the commit, which rollback() does not undo.  The session
\* holds no pending change after commit() or rollback().
Committed(rows, r, fault, refreshes) ==
    IF r.exc # "" THEN [exc |-> r.exc, rows |-> rows, pending |-> {}]
    ELSE IF fault = "commit"
    THEN [exc |-> "OperationalError", rows |-> rows, pending |-> {}]
    ELSE IF fault = "refresh" /\ refreshes
    THEN [exc |-> "InvalidRequestError", rows |-> r.rows, pending |-> {}]
    ELSE [exc |-> "", rows |-> r.rows, pending |-> {}]

\* BaseRepositoryImpl.save
save(rows, model, fault) ==
    Committed(rows, [exc |-> "", rows |-> rows \cup {model}], fault, TRUE)

\* BaseRepositoryImpl.save_all: one refresh for each model.
save_all(rows, models, fault) ==
    Committed(rows,
              [exc |-> "", rows |-> rows \cup {models[i] : i \in 1..Len(models)}],
              fault, models # <<>>)

\* The new product models of a save_all of these names.
NewProducts(rows, names) ==
    [i \in 1..Len(names) |-> [id_key |-> NextId(rows) + i - 1, name |-> names[i]]]

repository_save(name, fault) ==
    /\ call = Idle
    /\ Cardinality(products) < MaxProducts
    /\ pre' = DB
    /\ UNCHANGED <<clients, bills, orders, order_details, outbox, attempts, aside>>
    /\ LET r == save(products, [id_key |-> NextId(products), name |-> name], fault)
       IN  /\ products' = r.rows
           /\ call' = [op |-> "repository.save", fault |-> fault, exc |-> r.exc,
                       pending |-> r.pending]

repository_save_all(names, fault) ==
    /\ call = Idle
    /\ Cardinality(products) + Len(names) <= MaxProducts
    /\ pre' = DB
    /\ UNCHANGED <<clients, bills, orders, order_details, outbox, attempts, aside>>
    /\ LET r == save_all(products, NewProducts(products, names), fault)
       IN  /\ products' = r.rows
           /\ call' = [op |-> "repository.save_all", fault |-> fault, exc |-> r.exc,
                       pending |-> r.pending]

repository_update(id_key, changes, fault) ==
    /\ call = Idle
    /\ pre' = DB
    /\ UNCHANGED <<clients, bills, orders, order_details, outbox, attempts, aside>>
    /\ LET r == Committed(products, update(products, id_key, changes, ProductColumns),
                          fault, TRUE)
       IN  /\ products' = r.rows
           /\ call' = [op |-> "repository.update", fault |-> fault, exc |-> r.exc,
                       pending |-> r.pending]

\* remove has no refresh: only its commit can fail.
repository_remove(id_key, fault) ==
    /\ call = Idle
    /\ pre' = DB
    /\ UNCHANGED <<clients, bills, orders, order_details, outbox, attempts, aside>>
    /\ LET r == remove(products, id_key, fault = "commit")
       IN  /\ products' = r.rows
           /\ call' = [op |-> "repository.remove", fault |-> fault, exc |-> r.exc,
                       pending |-> {}]

SaveRow ==
    \E name \in {"notebook", "laptop"}, fault \in SessionFaults :
        repository_save(name, fault)

SaveAllRows ==
    \E names \in {<<>>, <<"notebook">>, <<"notebook", "laptop">>}, fault \in SessionFaults :
        repository_save_all(names, fault)

UpdateRow ==
    \E id_key \in ProductIdInputs, changes \in ChangesInputs, fault \in SessionFaults :
        repository_update(id_key, changes, fault)

RemoveRow ==
    \E id_key \in ProductIdInputs, fault \in SessionFaults \ {"refresh"} :
        repository_remove(id_key, fault)

NextTransaction ==
    \/ SaveRow
    \/ SaveAllRows
    \/ UpdateRow
    \/ RemoveRow
    \/ ReturnResponse

SpecTransaction == Init /\ [][NextTransaction]_vars

\* C21: a mutating repository operation that raises leaves the committed
\* store as it was before the call and the session without pending change.
C21_MutationsAllOrNothing ==
    (/\ call.op \in {"repository.save", "repository.save_all",
                     "repository.update", "repository.remove"}
     /\ call.exc # "")
        => /\ products = pre.products
           /\ call.pending = {}

(***************************************************************************)
(* services/order_service.py: the name and lastname of the guest client    *)
(***************************************************************************)
MaxNameLen == 4

\* Full names of the payload: letters, the space and the tab.
NameInputs == UNION {[1..n -> {"a", "b", " ", "\t"}] : n \in 1..MaxNameLen}

\* PASO 1 on a miss builds the ClientModel from the payload.
new_client(client_name) ==
    /\ call = Idle
    /\ pre' = DB
    /\ UNCHANGED <<tables, outbox, attempts, aside>>
    /\ call' = [op |-> "new_client", client_name |-> client_name,
                client |-> NewClient([BaseOrder EXCEPT !.client_name = client_name],
                                     NextId(clients))]

BuildClient == \E client_name \in NameInputs : new_client(client_name)

NextName ==
    \/ BuildClient
    \/ ReturnResponse

SpecName == Init /\ [][NextName]_vars

\* The first whitespace-delimited token of a string that starts with one.
RECURSIVE FirstToken(_)
FirstToken(str) ==
    IF str = <<>> \/ IsSpace(Head(str)) THEN <<>>
    ELSE <<Head(str)>> \o FirstToken(Tail(str))

\* What follows the first token, without the whitespace around it.
AfterFirstToken(str) ==
    Strip(SubSeq(str, Len(FirstToken(str)) + 1, Len(str)))

\* C24: the name of the guest client is the first whitespace-delimited
\* token of the full name and the lastname is the remainder, or the first
\* token when there is no remainder, whatever whitespace the name holds.
C24_NameIsFirstToken ==
    (call.op = "new_client" /\ Strip(call.client_name) # <<>>)
        => LET full == Strip(call.client_name)
           IN  /\ call.client.name = FirstToken(full)
               /\ call.client.lastname =
                      IF AfterFirstToken(full) # <<>> THEN AfterFirstToken(full)
                      ELSE FirstToken(full)

(***************************************************************************)
(* utils/security.py, services/auth_service.py,                            *)
(* controllers/auth_controller.py: registration, login, authorization      *)
(***************************************************************************)
HTTP_401_UNAUTHORIZED == 401

HTTP_403_FORBIDDEN == 403

ADMIN_EMAIL == "azulcastroviejo@gmail.com"

\* str.lower() on the emails of the model.
Lower(email) ==
    IF email = "AzulCastroviejo@gmail.com" THEN "azulcastroviejo@gmail.com" ELSE email

\* verify_password: the hash is the hash of this plain text.
verify_password(plain_password, hashed_password) ==
    hashed_password = get_password_hash(plain_password)

\* create_access_token: the data, signed with the key and given an expiry.
create_access_token(data) == [signed |-> TRUE, sub |-> data.sub, role |-> data.role]

\* decode_access_token: the payload of a token whose signature and expiry
\* are good, None (no payload) otherwise.
decode_access_token(token) ==
    IF token.signed THEN <<[sub |-> token.sub, role |-> token.role]>> ELSE <<>>

\* ClientRepository.find_by_email: the first client with the email, or None.
find_by_email(rows, email) ==
    LET found == {c \in rows : c.email = email}
    IN  IF found = {} THEN <<>> ELSE <<CHOOSE c \in found : TRUE>>

\* The names the module services.auth_service defines or imports.
auth_service_names ==
    {"Depends", "HTTPException", "status", "OAuth2PasswordBearer",
     "OAuth2PasswordRequestForm", "Session", "ClientModel", "UserRole",
     "ClientRepository", "TokenSchema", "TokenDataSchema", "create_access_token",
     "verify_password", "decode_access_token", "get_db", "oauth2_scheme",
     "AuthService", "credentials_exception", "get_current_user",
     "get_current_admin_user"}

\* auth_service.<name>: AttributeError for a name the module does not have.
auth_service_has(name) == name \in auth_service_names

\* The role register_user gives the new user.
user_role(email) == IF Lower(email) = ADMIN_EMAIL THEN "ADMIN" ELSE "USER"

\* POST /auth/register.  An exception the handler does not catch is
\* answered 500.
register_user(user_create) ==
    /\ call = Idle
    /\ pre' = DB
    /\ UNCHANGED <<bills, orders, order_details, products, outbox, attempts, aside>>
    /\ IF ~auth_service_has("get_user")
       THEN /\ UNCHANGED clients
            /\ call' = [op |-> "register_user", user_create |-> user_create,
                        exc |-> "AttributeError",
                        status |-> HTTP_500_INTERNAL_SERVER_ERROR]
       ELSE IF find_by_email(clients, user_create.email) # <<>>
       THEN /\ UNCHANGED clients
            /\ call' = [op |-> "register_user", user_create |-> user_create,
                        exc |-> "HTTPException", status |-> HTTP_400_BAD_REQUEST]
       ELSE IF ~auth_service_has("get_password_hash")
       THEN /\ UNCHANGED clients
            /\ call' = [op |-> "register_user", user_create |-> user_create,
                        exc |-> "AttributeError",
                        status |-> HTTP_500_INTERNAL_SERVER_ERROR]
       ELSE /\ clients' = clients \cup
                   {[id_key |-> NextId(clients), name |-> user_create.name,
                     lastname |-> user_create.lastname, email |-> user_create.email,
                     telephone |-> NULL,
                     hashed_password |-> get_password_hash(user_create.password),
                     role |-> user_role(user_create.email)]}
            /\ call' = [op |-> "register_user", user_create |-> user_create,
                        exc |-> "", status |-> HTTP_201_CREATED]

\* POST /auth/login (the function of the controller).
login_for_access_token(username, password) ==
    /\ call = Idle
    /\ pre' = DB
    /\ UNCHANGED <<tables, outbox, attempts, aside>>
    /\ LET user == find_by_email(clients, username)
       IN  IF ~auth_service_has("get_user")
           THEN call' = [op |-> "login", username |-> username, password |-> password,
                         exc |-> "AttributeError", token |-> <<>>,
                         status |-> HTTP_500_INTERNAL_SERVER_ERROR]
           ELSE IF user = <<>> \/ ~verify_password(password, user[1].hashed_password)
           THEN call' = [op |-> "login", username |-> username, password |-> password,
                         exc |-> "HTTPException", token |-> <<>>,
                         status |-> HTTP_401_UNAUTHORIZED]
           ELSE call' = [op |-> "login", username |-> username, password |-> password,
                         exc |-> "",
                         token |-> <<create_access_token(
                                        [sub |-> user[1].email, role |-> user[1].role])>>,
                         status |-> HTTP_200_OK]

\* AuthService.login_for_access_token (the method of the service class).
AuthService_login_for_access_token(username, password) ==
    /\ call = Idle
    /\ pre' = DB
    /\ UNCHANGED <<tables, outbox, attempts, aside>>
    /\ LET client == find_by_email(clients, username)
       IN  IF client = <<>> \/ ~verify_password(password, client[1].hashed_password)
           THEN call' = [op |-> "login", username |-> username, password |-> password,
                         exc |-> "HTTPException", token |-> <<>>,
                         status |-> HTTP_401_UNAUTHORIZED]
           ELSE call' = [op |-> "login", username |-> username, password |-> password,
                         exc |-> "",
                         token |-> <<create_access_token(
                                        [sub |-> client[1].email, role |-> client[1].role])>>,
                         status |-> HTTP_200_OK]

\* get_current_user: the client of the token, or the credentials exception.
get_current_user(rows, token) ==
    LET payload == decode_access_token(token)
        unauthorized == [status |-> HTTP_401_UNAUTHORIZED, user |-> <<>>]
    IN  IF payload = <<>> THEN unauthorized
        ELSE IF payload[1].sub = NULL THEN unauthorized
        ELSE IF find_by_email(rows, payload[1].sub) = <<>> THEN unauthorized
        ELSE [status |-> HTTP_200_OK, user |-> find_by_email(rows, payload[1].sub)]

\* get_current_admin_user with the role test left out.
get_current_admin_user_any_role(rows, token) == get_current_user(rows, token)

\* get_current_admin_user: the current user, if its role is ADMIN.
get_current_admin_user(rows, token) ==
    LET current_user == get_current_user(rows, token)
    IN  IF current_user.user = <<>> THEN current_user
        ELSE IF current_user.user[1].role # "ADMIN"
        THEN [status |-> HTTP_403_FORBIDDEN, user |-> <<>>]
        ELSE current_user

\* A request to an endpoint that depends on get_current_user.
CurrentUser(token) ==
    /\ call = Idle
    /\ pre' = DB
    /\ UNCHANGED <<tables, outbox, attempts, aside>>
    /\ LET r == get_current_user(clients, token)
       IN  call' = [op |-> "get_current_user", token |-> token,
                    status |-> r.status, user |-> r.user]

\* A request to an endpoint that depends on get_current_admin_user.
CurrentAdminUser(token) ==
    /\ call = Idle
    /\ pre' = DB
    /\ UNCHANGED <<tables, outbox, attempts, aside>>
    /\ LET r == get_current_admin_user(clients, token)
       IN  call' = [op |-> "get_current_admin_user", token |-> token,
                    status |-> r.status, user |-> r.user]

(***************************************************************************)
(* The specification of registration, login and authorization.             *)
(***************************************************************************)
AuthEmails == {"ana@mail.com", "azulcastroviejo@gmail.com", "AzulCastroviejo@gmail.com"}

Passwords == {"secret123", "password1"}

Roles == {"USER", "ADMIN"}

AuthClientInputs ==
    {[name |-> <<"a">>, lastname |-> <<"b">>, email |-> e, telephone |-> "2612077095",
      role |-> r, password |-> "secret123"] :
        e \in {"ana@mail.com", "azulcastroviejo@gmail.com"}, r \in Roles}

UserCreateInputs ==
    {[email |-> e, password |-> "secret123", name |-> <<"a">>, lastname |-> <<"b">>] :
        e \in AuthEmails}

TokenInputs ==
    {[signed |-> g, sub |-> e, role |-> r] :
        g \in BOOLEAN, e \in {"ana@mail.com", "azulcastroviejo@gmail.com", NULL},
        r \in Roles}

PostAuthClient == \E schema_in \in AuthClientInputs : ClientCreate(schema_in)

Register == \E user_create \in UserCreateInputs : register_user(user_create)

Login ==
    \E username \in AuthEmails, password \in Passwords :
        login_for_access_token(username, password)

ServiceLogin ==
    \E username \in AuthEmails, password \in Passwords :
        AuthService_login_for_access_token(username, password)

GetCurrentUser == \E token \in TokenInputs : CurrentUser(token)

GetCurrentAdminUser == \E token \in TokenInputs : CurrentAdminUser(token)

NextAuth ==
    \/ PostAuthClient
    \/ Register
    \/ Login
    \/ ServiceLogin
    \/ SaveProduct
    \/ PostOrderBase
    \/ GetCurrentUser
    \/ GetCurrentAdminUser
    \/ ReturnResponse

SpecAuth == Init /\ [][NextAuth]_vars

\* The emails of the clients of a store.
EmailTaken(rows, email) == \E c \in rows : c.email = email

\* C25: no two clients share an email, and creating a client with an email
\* that is present is rejected, 409 by client creation and 400 by
\* registration, with the clients unchanged.
C25_EmailsUnique ==
    /\ \A c1, c2 \in clients : c1.email = c2.email => c1 = c2
    /\ (call.op = "register_user" /\ EmailTaken(pre.clients, call.user_create.email))
           => (call.status = HTTP_400_BAD_REQUEST /\ clients = pre.clients)
    /\ call.op = "client_create"
           => /\ call.status = HTTP_409_CONFLICT => clients = pre.clients
              /\ \A c \in clients \ pre.clients : ~EmailTaken(pre.clients, c.email)

\* C26: login issues a token exactly when a client has the submitted email
\* and the password verifies against its hash; otherwise it answers 401
\* without a token; the token carries the email and the role of the client.
C26_LoginIssuesToken ==
    call.op = "login"
        => LET authentic ==
                   {c \in pre.clients :
                       /\ c.email = call.username
                       /\ c.hashed_password = get_password_hash(call.password)}
           IN  /\ authentic # {} <=> call.token # <<>>
               /\ call.token = <<>> => call.status = HTTP_401_UNAUTHORIZED
               /\ call.token # <<>>
                      => \E c \in authentic :
                             /\ call.token[1].sub = c.email
                             /\ call.token[1].role = c.role

\* The clients a token stands for: it decodes, carries a subject, and the
\* subject is the email of the client.
Holders(token) ==
    {c \in clients : token.signed /\ token.sub # NULL /\ c.email = token.sub}

\* C27: get_current_user returns a client only for a token that decodes,
\* carries a subject and whose subject is the email of an existing client,
\* and answers 401 otherwise; get_current_admin_user returns a client only
\* if its stored role is ADMIN and answers 403 otherwise; registration gives
\* the ADMIN role only to the admin email, compared case-insensitively.
C27_TokenAuthorizes ==
    /\ call.op = "get_current_user"
           => /\ call.user # <<>> => call.user[1] \in Holders(call.token)
              /\ call.user = <<>>
                     => (call.status = HTTP_401_UNAUTHORIZED
                         /\ Holders(call.token) = {})
    /\ call.op = "get_current_admin_user"
           => /\ call.user # <<>>
                     => (call.user[1] \in Holders(call.token)
                         /\ call.user[1].role = "ADMIN")
              /\ call.user = <<>>
                     => IF Holders(call.token) = {}
                        THEN call.status = HTTP_401_UNAUTHORIZED
                        ELSE /\ call.status = HTTP_403_FORBIDDEN
                             /\ \A c \in Holders(call.token) : c.role # "ADMIN"
    /\ call.op = "register_user"
           => \A c \in clients \ pre.clients :
                  c.role = "ADMIN" => Lower(c.email) = ADMIN_EMAIL

\* A token that claims the ADMIN role for a client stored as USER is
\* answered 403.
C27_Witness ==
    /\ call.op = "get_current_admin_user"
    /\ call.token.role = "ADMIN"
    /\ Holders(call.token) # {}
    /\ call.status = HTTP_403_FORBIDDEN

(***************************************************************************)
(* services/product_service.py: sequential calls with the cache available  *)
(***************************************************************************)
GetOneAvailable == \E id_key \in ProductIdInputs : ProductGetOne(id_key, TRUE)

GetAllAvailable == \E page \in PageInputs : ProductGetAll(page[1], page[2], TRUE)

GetByCategoryAvailable ==
    \E page \in PageInputs : ProductGetByCategory(1, page[1], page[2], TRUE)

SaveAvailable ==
    \E name \in {"notebook", "laptop"} : ProductServiceSave([name |-> name], TRUE)

UpdateAvailable ==
    \E id_key \in ProductIdInputs, name \in {"notebook", "laptop"} :
        ProductServiceUpdate(id_key, [name |-> name], TRUE)

DeleteAvailable == \E id_key \in ProductIdInputs : ProductServiceDelete(id_key, TRUE)

NextCoherent ==
    \/ GetOneAvailable
    \/ GetAllAvailable
    \/ GetByCategoryAvailable
    \/ SaveAvailable
    \/ UpdateAvailable
    \/ DeleteAvailable
    \/ ReturnResponse

SpecCoherent == Init /\ [][NextCoherent]_vars

\* The entry under key k is what the read of the store it stands for
\* returns now.  The store read of a category listing raises, so no entry
\* stands for it.
Coherent(k) ==
    CASE k.operation = "id" ->
             \E p \in products :
                 /\ p.id_key = k.params[1]
                 /\ cache[k] = [id_key |-> p.id_key, name |-> p.name]
      [] k.operation = "list" -> cache[k] = StoredPage(k.params[1], k.params[2])
      [] OTHER -> FALSE

get_one_miss(rid, id_key) ==
    /\ call = Idle
    /\ \A r \in inflight : r.rid # rid
    /\ CacheGet(cache, TRUE, build_key(cache_prefix, "id", <<id_key>>)) = <<>>
    /\ find(products, id_key, {}).exc = ""
    /\ inflight' = inflight \cup
           {[rid |-> rid, id_key |-> id_key,
             product |-> ProductSchema(find(products, id_key, {}).models[1])]}
    /\ UNCHANGED <<tables, outbox, attempts, call, pre, cache, last>>

\* get_one from cache.set on: the product read before is stored and returned.
get_one_set(rid) ==
    /\ call = Idle
    /\ \E r \in inflight :
           /\ r.rid = rid
           /\ inflight' = inflight \ {r}
           /\ cache' = CacheSet(cache, TRUE, build_key(cache_prefix, "id", <<r.id_key>>),
                                model_dump(r.product))
           /\ call' = [op |-> "ProductService.get_one", args |-> [id_key |-> r.id_key],
                       available |-> TRUE, exc |-> "", result |-> <<r.product>>,
                       hit |-> FALSE, reads |-> 1, prior |-> last, cache_was |-> cache]
    /\ pre' = DB
    /\ last' = Idle
    /\ UNCHANGED <<tables, outbox, attempts>>

ReadMiss == \E rid \in RequestIds, id_key \in ProductIdInputs : get_one_miss(rid, id_key)

FillCache == \E rid \in RequestIds : get_one_set(rid)

NextCacheRace ==
    \/ SaveAvailable
    \/ UpdateAvailable
    \/ GetOneAvailable
    \/ ReadMiss
    \/ FillCache
    \/ ReturnResponse

SpecCacheRace == Init /\ [][NextCacheRace]_vars

\* C28: once a get_one that missed and an update of the same product have
\* both completed, the item entry of the product is absent or equal to the
\* stored product.
C28_FillNeverStale ==
    inflight = {}
        => \A id_key \in Ids(products) :
               ItemKey(id_key) \in DOMAIN cache
                   => <<cache[ItemKey(id_key)]>> = StoredProduct(id_key)

(***************************************************************************)
(* repositories/base_repository_impl.py: what update and remove change     *)
(***************************************************************************)
\* BaseRepositoryImpl.remove on the products table.
ProductRemove(id_key) ==
    /\ call = Idle
    /\ pre' = DB
    /\ UNCHANGED <<clients, bills, orders, order_details, outbox, attempts, aside>>
    /\ LET r == remove(products, id_key, FALSE)
       IN  /\ products' = r.rows
           /\ call' = [op |-> "remove", id_key |-> id_key, exc |-> r.exc]

UpdateAnyProduct ==
    \E id_key \in ProductIdInputs, changes \in ChangesInputs : ProductUpdate(id_key, changes)

RemoveProduct == \E id_key \in ProductIdInputs : ProductRemove(id_key)

NextFrame ==
    \/ SaveProduct
    \/ UpdateAnyProduct
    \/ RemoveProduct
    \/ ReturnResponse

SpecFrame == Init /\ [][NextFrame]_vars

\* The entries of a changes dict that name a column other than id_key and
\* carry a value that is not None.
Named(changes) ==
    {i \in 1..Len(changes) :
        /\ changes[i][1] \in ProductColumns \ {"id_key"}
        /\ changes[i][2] # NULL}

\* The row with each named field set to the value the dict gives it.
Changed(row, changes) ==
    [f \in DOMAIN row |->
        IF \E i \in Named(changes) : changes[i][1] = f
        THEN changes[CHOOSE i \in Named(changes) :
                         /\ changes[i][1] = f
                         /\ \A j \in Named(changes) : changes[j][1] = f => j <= i][2]
        ELSE row[f]]

\* The dict holds a key update refuses: no column, not protected, not
\* starting with an underscore, with a value that is not None.
Refused(changes) ==
    \E i \in 1..Len(changes) :
        /\ changes[i][1] \notin ProductColumns \cup {"id_key", "_sa_instance_state"}
        /\ changes[i][1] \notin {"_sa_instance_state", "_name"}
        /\ changes[i][2] # NULL

\* update and remove leave the ids and the other rows alone, and change
\* nothing on an id that does not exist, raising not-found.
FrameKept ==
    call.op \in {"update", "remove"}
        => /\ \A p \in pre.products : p.id_key # call.id_key => p \in products
           /\ call.op = "update" => Ids(products) = Ids(pre.products)
           /\ call.id_key \notin Ids(pre.products)
                  => (call.exc = "InstanceNotFoundError" /\ products = pre.products)
           /\ <<clients, bills, orders, order_details>>
                  = <<pre.clients, pre.bills, pre.orders, pre.order_details>>

\* C30 as stated: update never changes id_key, changes exactly the fields
\* named by column keys with a non-None value and nothing else; update and
\* remove on a missing id raise not-found and change nothing.
C30_UpdateChangesNamedFields ==
    /\ FrameKept
    /\ call.op = "update"
           => \A p \in pre.products :
                  p.id_key = call.id_key => Changed(p, call.changes) \in products

\* C30, amended: an update that returns has changed exactly the named
\* fields; an update that raises (not-found, or ValueError for a refused
\* key) has changed nothing; id_key, the other fields and the other rows
\* are never changed; remove on a missing id raises not-found and changes
\* nothing.
C30_UpdateFrame ==
    /\ FrameKept
    /\ call.op = "update"
           => /\ call.exc = ""
                     <=> (call.id_key \in Ids(pre.products) /\ ~Refused(call.changes))
              /\ call.exc = ""
                     => \A p \in pre.products :
                            p.id_key = call.id_key
                                => Changed(p, call.changes) \in products
              /\ call.exc # "" => products = pre.products
              /\ Refused(call.changes) /\ call.id_key \in Ids(pre.products)
                     => call.exc = "ValueError"

\* An update that returned, changed the row, and was given a None value
\* it left alone.
C30_Witness ==
    /\ call.op = "update"
    /\ call.exc = ""
    /\ products # pre.products
    /\ \E i \in 1..Len(call.changes) : call.changes[i][2] = NULL

====
